---------------------------- MODULE Spec2Model ----------------------------
(***************************************************************************)
(* A model of the backup coordination engine of pingcap/br                 *)
(* (src/pkg/raw/full.go, src/cmd/raw.go).                                  *)
(*                                                                         *)
(* Keys are the integers 0..MaxKey; a range is a half-open interval        *)
(* [StartKey, EndKey) with StartKey < EndKey.  The RangeTree, the          *)
(* push-down driver, the safepoint check of the backer and the external    *)
(* storage are not part of the sources at hand: they are modelled from     *)
(* the design document (spec.md 4.1, 4.4, 4.7, 4.8, 6).                    *)
(***************************************************************************)
EXTENDS Integers, Sequences, FiniteSets, TLC

(***************************************************************************)
(* Bounds of the model.                                                    *)
(***************************************************************************)
MaxKey == 3
MaxRegionRetries == 1
MaxRanges == 2
MaxTS == 3
MaxPhysical == 3
MaxLogical == 1
MaxTables == 3
MaxPool == 3
MaxFiles == 2
WordBits == 2
MaxGaps == 2
MaxResponses == 5
MaxUpdateCap == 1

(***************************************************************************)
(* Program constants.                                                      *)
(***************************************************************************)
backupFineGrainedMaxBackoff == 80000
FineWorkers == 4
RespChCap == 4
ErrChCap == 4
RetryChCap == 4
RegionBackoffMs == 1000

FileNames == {"f1", "f2"}
LockMs == {0, 80000}

VARIABLES
    \* ---- the range pipeline (BackupRanges' goroutine, backupRange) ----
    ranges,        \* the input ranges of the job, in the planner's order
    rIdx,          \* index of the range backupRange is called on
    rpc,           \* where the range goroutine stands
    rErr,          \* the error backupRange returned ("" while none)
    tree,          \* results: the RangeTree of the current backupRange call
    pushTodo,      \* push-down: region pieces no store has answered yet
    Files,         \* bc.backupMeta.Files
    metaVersions,  \* bc.backupMeta.StartVersion and .EndVersion
    namesSeen,     \* the file names the stores have used in this job
    \* ---- one outer iteration of fineGrainedBackup ----
    boTotal,       \* bo: the backoffer's total sleep so far (ms)
    incomplete,    \* the gaps of this iteration
    dpc, dIdx,     \* the dispatcher goroutine
    retry, retryClosed,
    respCh, respClosed,
    errCh,
    wpc, wrg, wpos, wmax,   \* the four workers
    maxMs,         \* max.ms
    covBefore,     \* keys covered when the iteration started
    hintMax,       \* largest backoffMs the classifier returned in the iteration
    \* ---- BackupRanges: the supervisor loop and its goroutine ----
    nRanges,       \* len(ranges)
    gIdx, gpc,     \* the goroutine: the range it is at, where it stands
    supPc,         \* where the supervisor loop stands
    finished,      \* the local `finished`
    lastErr,       \* what the last CheckGCSafepoint returned
    seenSafePoint, \* the safepoint that check read (-1: none read)
    supRet,        \* what BackupRanges returned ("none" while running)
    backupTS,      \* the (encoded) backup timestamp
    gcSafePoint,   \* the (encoded) GC safepoint of the cluster
    \* ---- GetTS ----
    tsPc,
    pdPhysical, pdLogical,   \* what pdClient.GetTS answers
    timeAgo,                 \* the --timeago flag
    safePointPhysical,       \* safePoint.Physical of the backer
    tsRet,                   \* what GetTS returned
    \* ---- onBackupResponse ----
    clsPc, clsResp, clsResolve, clsOut,
    \* ---- the backup commands of cmd/raw.go ----
    cmdKind,       \* "full" or "table"
    cmdPc,         \* the step RunE is at
    cmdRet,        \* what RunE returned ("none" while running)
    uEmpty, dbEmpty, tableEmpty, concurrencyZero, checksumSwitch,  \* flags
    metaPre,       \* the storage held backupmeta when the command started
    metaWrites,    \* writes of backupmeta to the storage
    cmdWork,       \* the work the command has started
    cmdLog,        \* the calls RunE has made so far, with their results
    \* ---- the schema-checksum pipeline (backupSchemas) ----
    nTables,       \* the tables the planner registers
    poolSize,      \* the workers of backupSchemas.workerPool
    applied,       \* the tables startTableChecksum was called for
    tpc,           \* where the checksum task of each table stands
    jpc,           \* planning, or where finishTableChecksum stands
    sumClosed,     \* checksumCh is closed
    joinSchemas,   \* the local `schemas` of finishTableChecksum
    joinRet,       \* what finishTableChecksum returned ("none" before)
    metaSchemas,   \* bc.backupMeta.Schemas (<<"unset">> while not set)
    tblNames,      \* the (dbName, tableName) of each table of the plan
    meta,          \* bs.meta: the table whose schema a name maps to
    \* ---- FastChecksum ----
    fcPc,
    fcN,           \* len(bc.backupMeta.Schemas)
    fcIdx,         \* the schema the loop is at
    fcFiles,       \* the files of its table the inner loop has read
    checksum, totalKvs, totalBytes,   \* the locals of the same names
    fcMismatch,    \* some table read so far disagrees with its schema
    fcRet,         \* what FastChecksum returned ("none" before)
    \* ---- the channels of one fine-grained iteration, by message counts ----
    chMain,        \* the select loop of fineGrainedBackup
    chDisp,        \* the dispatcher goroutine
    chTodo,        \* ranges of `incomplete` not yet sent to retry
    chRetry,       \* len(retry)
    chResp,        \* len(respCh)
    chErr,         \* len(errCh)
    chW,           \* the worker goroutines
    chSent,        \* responses the stores have streamed so far
    chUpd,         \* len(updateCh)
    chUpdCap,      \* cap(updateCh)
    chStalled      \* the consumer of updateCh has stopped receiving

rangeVars == <<ranges, rIdx, rpc, rErr, tree, pushTodo, Files, metaVersions,
               namesSeen,
               boTotal, incomplete, dpc, dIdx, retry, retryClosed,
               respCh, respClosed, errCh, wpc, wrg, wpos, wmax, maxMs,
               covBefore, hintMax>>

supVars == <<nRanges, gIdx, gpc, supPc, finished, lastErr, seenSafePoint,
             supRet, backupTS, gcSafePoint>>

tsVars == <<tsPc, pdPhysical, pdLogical, timeAgo, safePointPhysical, tsRet>>

clsVars == <<clsPc, clsResp, clsResolve, clsOut>>

cmdVars == <<cmdKind, cmdPc, cmdRet, uEmpty, dbEmpty, tableEmpty,
             concurrencyZero, checksumSwitch, metaPre, metaWrites, cmdWork,
             cmdLog>>

sumVars == <<nTables, poolSize, applied, tpc, jpc, sumClosed, joinSchemas,
             joinRet, metaSchemas, tblNames, meta>>

fcVars == <<fcPc, fcN, fcIdx, fcFiles, checksum, totalKvs, totalBytes,
            fcMismatch, fcRet>>

chanVars == <<chMain, chDisp, chTodo, chRetry, chResp, chErr, chW, chSent,
              chUpd, chUpdCap, chStalled>>

vars == <<rangeVars, supVars, tsVars, clsVars, cmdVars, sumVars, fcVars,
          chanVars>>

outsideRange ==
    <<supVars, tsVars, clsVars, cmdVars, sumVars, fcVars, chanVars>>

Workers == 1..FineWorkers

(***************************************************************************)
(* Range primitives and the RangeTree (design document, section 4.1).      *)
(***************************************************************************)
Range(a, b) == [StartKey |-> a, EndKey |-> b]

KeysOf(r) == r.StartKey .. (r.EndKey - 1)

\* The keys covered by the nodes of a tree.
Covered(t) == UNION {KeysOf(n) : n \in t}

\* putOk: insert a completed sub-range; the index is keyed by StartKey.
putOk(t, startKey, endKey, files) ==
    {n \in t : n.StartKey # startKey}
        \cup {[StartKey |-> startKey, EndKey |-> endKey, Files |-> files]}

\* The maximal uncovered segments of [lo, hi), as a set.
GapSet(t, lo, hi) ==
    {g \in {Range(a, b) : a \in lo..hi, b \in lo..hi} :
        /\ g.StartKey < g.EndKey
        /\ KeysOf(g) \cap Covered(t) = {}
        /\ (g.StartKey = lo \/ (g.StartKey - 1) \in Covered(t))
        /\ (g.EndKey = hi \/ g.EndKey \in Covered(t))}

\* A set of ranges with distinct StartKeys as a sequence ascending by StartKey.
RECURSIVE SortByStart(_)
SortByStart(S) ==
    IF S = {} THEN <<>>
    ELSE LET m == CHOOSE x \in S : \A y \in S : x.StartKey <= y.StartKey
         IN <<m>> \o SortByStart(S \ {m})

\* getIncompleteRange(lo, hi): the ordered list of uncovered segments.
getIncompleteRange(t, lo, hi) == SortByStart(GapSet(t, lo, hi))

\* tree.Ascend: the nodes ascending by StartKey.
Ascend(t) == SortByStart(t)

RECURSIVE FlattenFiles(_)
FlattenFiles(nodes) ==
    IF nodes = <<>> THEN <<>>
    ELSE Head(nodes).Files \o FlattenFiles(Tail(nodes))

\* checkDupFiles: some File.Name occurs more than once in the tree.
HasDupFiles(t) ==
    LET fs == FlattenFiles(Ascend(t))
    IN \E i, j \in 1..Len(fs) : i # j /\ fs[i].Name = fs[j].Name


(***************************************************************************)
(* Backup responses and the response classifier.                           *)
(***************************************************************************)
RetryableRegionErrs == {"EpochNotMatch", "NotLeader", "RegionNotFound",
                        "ServerIsBusy", "StaleCommand", "StoreNotMatch"}
OtherRegionErrs == {"KeyNotInRegion", "RaftEntryTooLarge"}
RegionErrFields == RetryableRegionErrs \cup OtherRegionErrs

\* resp.Error: IsNil, or a Detail of one of the three variants ("none": a nil
\* or unknown Detail) with the fields of the variant that are set.
ErrNil == [IsNil |-> TRUE, Detail |-> "none", Locked |-> FALSE, Region |-> {}]
ErrKv(locked) ==
    [IsNil |-> FALSE, Detail |-> "KvError", Locked |-> locked, Region |-> {}]
ErrRegion(fields) ==
    [IsNil |-> FALSE, Detail |-> "RegionError", Locked |-> FALSE, Region |-> fields]
ErrCluster ==
    [IsNil |-> FALSE, Detail |-> "ClusterIdError", Locked |-> FALSE, Region |-> {}]
ErrUnknown ==
    [IsNil |-> FALSE, Detail |-> "none", Locked |-> FALSE, Region |-> {}]

AllErrors == {ErrNil, ErrKv(TRUE), ErrKv(FALSE), ErrCluster, ErrUnknown}
                 \cup {ErrRegion(fs) : fs \in SUBSET RegionErrFields}

\* The outcomes of lockResolver.ResolveLocks: an error, or msBeforeExpired.
ResolveOutcomes == {[err |-> TRUE, ms |-> 0]}
                       \cup {[err |-> FALSE, ms |-> m] : m \in LockMs}

BackupResponse(a, b, files, e) ==
    [StartKey |-> a, EndKey |-> b, Files |-> files, Error |-> e]

\* What onBackupResponse returns: (response, backoffMs, err); a nil response
\* is the empty sequence.
Verdict(response, backoffMs, err) ==
    [response |-> response, backoffMs |-> backoffMs, err |-> err]

\* A wrong classifier: a response with an error the switch does not know is
\* handed back as if it could be committed.
onBackupResponseFailOpen(resp, resolve) ==
    IF resp.Error.IsNil \/ resp.Error.Detail = "none"
    THEN Verdict(<<resp>>, 0, FALSE)
    ELSE Verdict(<<>>, 0, TRUE)

onBackupResponse(resp, resolve) ==
    IF resp.Error.IsNil THEN Verdict(<<resp>>, 0, FALSE)
    ELSE CASE resp.Error.Detail = "KvError" ->
                 IF resp.Error.Locked
                 THEN IF resolve.err THEN Verdict(<<>>, 0, TRUE)
                      ELSE Verdict(<<>>, IF resolve.ms > 0 THEN resolve.ms ELSE 0,
                                   FALSE)
                 ELSE Verdict(<<>>, 0, TRUE)
           [] resp.Error.Detail = "RegionError" ->
                 IF resp.Error.Region \cap RetryableRegionErrs = {}
                 THEN Verdict(<<>>, 0, TRUE)
                 ELSE Verdict(<<>>, RegionBackoffMs, FALSE)
           [] resp.Error.Detail = "ClusterIdError" -> Verdict(<<>>, 0, TRUE)
           [] OTHER -> Verdict(<<>>, 0, TRUE)

(***************************************************************************)
(* What a store may answer.                                                *)
(***************************************************************************)
\* The Files of a successful response for [a, b): none, or one SST.
FilesFor(a, b) ==
    {<<>>} \cup {<<[Name |-> n, StartKey |-> a, EndKey |-> b]>> : n \in FileNames}

\* The names a store gives a new file: one used before in the job (a
\* collision) or the next unused one.  Names matter only by being equal or
\* not, so which unused name is taken makes no difference.
NamesToUse(seen) ==
    seen \cup (IF seen = FileNames THEN {}
               ELSE {CHOOSE n \in FileNames \ seen : TRUE})

NamesIn(fs) == {fs[i].Name : i \in 1..Len(fs)}

\* The error variants a store answers with in the range pipeline.
StoreErrors == {ErrKv(TRUE), ErrKv(FALSE), ErrRegion({"NotLeader"}),
                ErrRegion({"KeyNotInRegion"}), ErrCluster, ErrUnknown}

\* The region pieces of [s, e) cut at the split points P.
Pieces(s, e, P) ==
    LET cuts == {s, e} \cup P
    IN {Range(a, b) : a \in cuts, b \in cuts} \cap
       {r \in {Range(a, b) : a \in s..e, b \in s..e} :
           /\ r.StartKey < r.EndKey
           /\ \A c \in cuts : ~(r.StartKey < c /\ c < r.EndKey)}

NoRange == Range(0, 0)

(***************************************************************************)
(* The range pipeline: the goroutine of BackupRanges that calls            *)
(* backupRange on each input range in turn.                                *)
(***************************************************************************)
\* The lists of input ranges a planner emits over the keys 0..MaxKey.
RangeLists ==
    {<<Range(0, MaxKey)>>,
     <<Range(0, 1), Range(1, MaxKey)>>,
     <<Range(1, MaxKey), Range(0, 1)>>}

CurRange == ranges[rIdx]

fineVars == <<incomplete, dpc, dIdx, retry, retryClosed, respCh, respClosed,
              errCh, wpc, wrg, wpos, wmax, maxMs, covBefore, hintMax>>

\* The pipeline before its first backupRange call.
\* The versions of a manifest no range has written to.
NoVersions == [StartVersion |-> 0, EndVersion |-> 0]

RangeStart ==
    /\ rIdx = 1
    /\ rpc = "call"
    /\ rErr = ""
    /\ tree = {}
    /\ pushTodo = {}
    /\ Files = <<>>
    /\ metaVersions = NoVersions
    /\ namesSeen = {}
    /\ boTotal = 0
    /\ incomplete = <<>>
    /\ dpc = "idle" /\ dIdx = 1
    /\ retry = <<>> /\ retryClosed = FALSE
    /\ respCh = <<>> /\ respClosed = FALSE
    /\ errCh = <<>>
    /\ wpc = [w \in Workers |-> "idle"]
    /\ wrg = [w \in Workers |-> NoRange]
    /\ wpos = [w \in Workers |-> 0]
    /\ wmax = [w \in Workers |-> 0]
    /\ maxMs = 0
    /\ covBefore = {}
    /\ hintMax = 0

InitRange == ranges \in RangeLists /\ RangeStart

\* No job is running.
IdleRange == ranges = <<>> /\ RangeStart

\* backupRange returns err: the goroutine hands it over and ends.
ReturnErr(e) == rpc' = "failed" /\ rErr' = e

\* A wrong request: a window of versions that starts at 0.
BackupRequestFromZero(startKey, endKey, ts) ==
    [StartKey |-> startKey, EndKey |-> endKey,
     StartVersion |-> 0, EndVersion |-> ts]

\* backup.BackupRequest{StartKey, EndKey, StartVersion: backupTS,
\* EndVersion: backupTS, ...}, as backupRange and handleFineGrained build it.
BackupRequest(startKey, endKey, ts) ==
    [StartKey |-> startKey, EndKey |-> endKey,
     StartVersion |-> ts, EndVersion |-> ts]

\* The request of the push-down round of the current range.
PushReq == BackupRequest(CurRange.StartKey, CurRange.EndKey, backupTS)

\* backupRange, up to the push-down request: GetAllStores fails, or the
\* request for [startKey, endKey) goes to every store.  The region pieces of
\* the range are the ones the stores will answer for.
BackupRangeStart ==
    /\ rpc = "call"
    /\ \/ /\ ReturnErr("GetAllStores")
          /\ UNCHANGED <<tree, pushTodo>>
       \/ /\ \E P \in SUBSET ((PushReq.StartKey + 1) .. (PushReq.EndKey - 1)) :
                 pushTodo' = Pieces(PushReq.StartKey, PushReq.EndKey, P)
          /\ tree' = {}
          /\ rpc' = "push"
          /\ UNCHANGED rErr
    /\ UNCHANGED <<namesSeen, outsideRange>>
    /\ UNCHANGED <<ranges, rIdx, Files, metaVersions, boTotal, fineVars>>

\* pushBackup: a response with empty Error is inserted into the tree.
PushAccept ==
    /\ rpc = "push"
    /\ \E p \in pushTodo : \E fs \in FilesFor(p.StartKey, p.EndKey) :
          /\ NamesIn(fs) \subseteq NamesToUse(namesSeen)
          /\ namesSeen' = namesSeen \cup NamesIn(fs)
          /\ tree' = putOk(tree, p.StartKey, p.EndKey, fs)
          /\ pushTodo' = pushTodo \ {p}
    /\ UNCHANGED outsideRange
    /\ UNCHANGED <<ranges, rIdx, rpc, rErr, Files, metaVersions, boTotal,
                   fineVars>>

\* pushBackup: a response with a non-fatal error is dropped, and so is a
\* piece no store answers for; either leaves a gap.
PushDrop ==
    /\ rpc = "push"
    /\ \E p \in pushTodo : pushTodo' = pushTodo \ {p}
    /\ UNCHANGED <<namesSeen, outsideRange>>
    /\ UNCHANGED <<ranges, rIdx, rpc, rErr, tree, Files, metaVersions,
                   boTotal, fineVars>>

\* pushBackup: a fatal error aborts; backupRange returns it.
PushFatal ==
    /\ rpc = "push"
    /\ pushTodo # {}
    /\ ReturnErr("pushBackup")
    /\ UNCHANGED <<namesSeen, outsideRange>>
    /\ UNCHANGED <<ranges, rIdx, tree, pushTodo, Files, metaVersions,
                   boTotal, fineVars>>

\* pushBackup returns the tree; fineGrainedBackup starts with a new backoffer.
PushDone ==
    /\ rpc = "push"
    /\ pushTodo = {}
    /\ rpc' = "fine"
    /\ boTotal' = 0
    /\ UNCHANGED <<namesSeen, outsideRange>>
    /\ UNCHANGED <<ranges, rIdx, rErr, tree, pushTodo, Files, metaVersions,
                   fineVars>>

(***************************************************************************)
(* fineGrainedBackup: the outer loop.                                      *)
(***************************************************************************)
\* Step 1: the ranges this iteration retries.
Incomplete(t, startKey, endKey) == getIncompleteRange(t, startKey, endKey)

\* A wrong Step 1: the loop also stops when a single range is incomplete.
FineFinishedOffByOne(inc) == Len(inc) <= 1

\* Step 1: nothing is incomplete, fineGrainedBackup returns nil.
FineFinished(inc) == Len(inc) = 0

\* backupRange, after fineGrainedBackup: the files of the tree, ascending,
\* are appended to the manifest.
AppendFiles(files, t) == files \o FlattenFiles(Ascend(t))

\* fineGrainedBackup returns nil and backupRange finishes: the files are
\* appended, the duplicate check runs, and the goroutine goes on to the next
\* range (or closes errCh after the last).
BackupRangeFinish ==
    /\ rpc = "fine"
    /\ FineFinished(Incomplete(tree, CurRange.StartKey, CurRange.EndKey))
    /\ metaVersions' = [StartVersion |-> backupTS, EndVersion |-> backupTS]
    /\ Files' = AppendFiles(Files, tree)
    /\ IF HasDupFiles(tree)
       THEN rpc' = "fatal" /\ UNCHANGED rIdx
       ELSE IF rIdx < Len(ranges)
            THEN rpc' = "call" /\ rIdx' = rIdx + 1
            ELSE rpc' = "done" /\ UNCHANGED rIdx
    /\ UNCHANGED <<namesSeen, outsideRange>>
    /\ UNCHANGED <<ranges, rErr, tree, pushTodo, boTotal, fineVars>>

\* Step 2: the channels are made, the four workers and the dispatcher start.
FineSpawn ==
    /\ rpc = "fine"
    /\ LET inc == Incomplete(tree, CurRange.StartKey, CurRange.EndKey)
       IN /\ ~FineFinished(inc)
          /\ incomplete' = inc
    /\ rpc' = "select"
    /\ dpc' = "send" /\ dIdx' = 1
    /\ retry' = <<>> /\ retryClosed' = FALSE
    /\ respCh' = <<>> /\ respClosed' = FALSE
    /\ errCh' = <<>>
    /\ wpc' = [w \in Workers |-> "recv"]
    /\ wrg' = [w \in Workers |-> NoRange]
    /\ wpos' = [w \in Workers |-> 0]
    /\ wmax' = [w \in Workers |-> 0]
    /\ maxMs' = 0
    /\ covBefore' = Covered(tree)
    /\ hintMax' = 0
    /\ UNCHANGED <<namesSeen, outsideRange>>
    /\ UNCHANGED <<ranges, rIdx, rErr, tree, pushTodo, Files, metaVersions, boTotal>>

pipeVars == <<ranges, rIdx, rpc, rErr, tree, pushTodo, Files, metaVersions, boTotal>>

\* The dispatcher: retry <- rg.
DispatchSend ==
    /\ dpc = "send"
    /\ dIdx <= Len(incomplete)
    /\ Len(retry) < RetryChCap
    /\ retry' = Append(retry, incomplete[dIdx])
    /\ dIdx' = dIdx + 1
    /\ UNCHANGED <<namesSeen, outsideRange>>
    /\ UNCHANGED <<pipeVars, incomplete, dpc, retryClosed, respCh, respClosed,
                   errCh, wpc, wrg, wpos, wmax, maxMs, covBefore, hintMax>>

\* The dispatcher: close(retry).
DispatchClose ==
    /\ dpc = "send"
    /\ dIdx > Len(incomplete)
    /\ retryClosed' = TRUE
    /\ dpc' = "wait"
    /\ UNCHANGED <<namesSeen, outsideRange>>
    /\ UNCHANGED <<pipeVars, incomplete, dIdx, retry, respCh, respClosed,
                   errCh, wpc, wrg, wpos, wmax, maxMs, covBefore, hintMax>>

\* The dispatcher: wg.Wait() returns, close(respCh).
DispatchCloseResp ==
    /\ dpc = "wait"
    /\ \A w \in Workers : wpc[w] = "done"
    /\ respClosed' = TRUE
    /\ dpc' = "done"
    /\ UNCHANGED <<namesSeen, outsideRange>>
    /\ UNCHANGED <<pipeVars, incomplete, dIdx, retry, retryClosed, respCh,
                   errCh, wpc, wrg, wpos, wmax, maxMs, covBefore, hintMax>>

(***************************************************************************)
(* The workers and handleFineGrained.                                      *)
(***************************************************************************)
\* A wrong request: the bounds of the whole range, as in the push-down.
FineReqWholeRange(rg) == Range(CurRange.StartKey, CurRange.EndKey)

\* The key bounds of the request handleFineGrained sends for rg.
FineReqBounds(rg) == Range(rg.StartKey, rg.EndKey)

\* The request handleFineGrained sends for rg.
FineReq(rg) ==
    BackupRequest(FineReqBounds(rg).StartKey, FineReqBounds(rg).EndKey,
                  backupTS)

\* The workers blocked on `range retry` are in the same local state, and the
\* runtime may wake any of them: the model wakes the one of lowest index.
FirstReceiver(w) == \A v \in Workers : v < w => wpc[v] # "recv"

\* for rg := range retry: a range is received; handleFineGrained finds the
\* leader of rg.StartKey and sends its request to the leader's store.
WorkerRecv(w) ==
    /\ wpc[w] = "recv"
    /\ FirstReceiver(w)
    /\ retry # <<>>
    /\ retry' = Tail(retry)
    /\ wrg' = [wrg EXCEPT ![w] = Head(retry)]
    /\ wpos' = [wpos EXCEPT ![w] = FineReq(Head(retry)).StartKey]
    /\ wmax' = [wmax EXCEPT ![w] = 0]
    /\ wpc' = [wpc EXCEPT ![w] = "stream"]
    /\ UNCHANGED <<namesSeen, outsideRange>>
    /\ UNCHANGED <<pipeVars, incomplete, dpc, dIdx, retryClosed, respCh,
                   respClosed, errCh, maxMs, covBefore, hintMax>>

\* retry is closed and drained: the worker returns (wg.Done).
WorkerExit(w) ==
    /\ wpc[w] = "recv"
    /\ FirstReceiver(w)
    /\ retry = <<>> /\ retryClosed
    /\ wpc' = [wpc EXCEPT ![w] = "done"]
    /\ UNCHANGED <<namesSeen, outsideRange>>
    /\ UNCHANGED <<pipeVars, incomplete, dpc, dIdx, retry, retryClosed, respCh,
                   respClosed, errCh, wrg, wpos, wmax, maxMs, covBefore, hintMax>>

\* The locals of a worker that is not inside handleFineGrained.
ResetLocals(w) ==
    /\ wrg' = [wrg EXCEPT ![w] = NoRange]
    /\ wpos' = [wpos EXCEPT ![w] = 0]
    /\ wmax' = [wmax EXCEPT ![w] = 0]

\* handleFineGrained returned an error: errCh <- err, and the worker returns.
WorkerFail(w) ==
    /\ errCh' = Append(errCh, "err")
    /\ wpc' = [wpc EXCEPT ![w] = "done"]
    /\ ResetLocals(w)

\* A range is received, and findRegionLeader fails after its five attempts.
WorkerLeaderFail(w) ==
    /\ wpc[w] = "recv"
    /\ FirstReceiver(w)
    /\ retry # <<>>
    /\ retry' = Tail(retry)
    /\ WorkerFail(w)
    /\ UNCHANGED <<namesSeen, outsideRange>>
    /\ UNCHANGED <<pipeVars, incomplete, dpc, dIdx, retryClosed, respCh,
                   respClosed, maxMs, covBefore, hintMax>>

\* A wrong callback: the response of the store goes to respCh whatever the
\* classifier returned for it.
OnResponseForwardAll(w, resp, resolve) ==
    LET v == onBackupResponse(resp, resolve)
    IN IF v.err
       THEN /\ WorkerFail(w)
            /\ UNCHANGED <<respCh, hintMax>>
       ELSE /\ wmax' = [wmax EXCEPT ![w] =
                           IF wmax[w] < v.backoffMs THEN v.backoffMs ELSE wmax[w]]
            /\ hintMax' = IF hintMax < v.backoffMs THEN v.backoffMs ELSE hintMax
            /\ Len(respCh) < RespChCap
            /\ respCh' = Append(respCh, resp)
            /\ wpos' = [wpos EXCEPT ![w] = resp.EndKey]
            /\ UNCHANGED <<errCh, wpc, wrg>>

\* The callback of SendBackup on one response of the stream: an error of the
\* classifier ends the stream, a response it returns goes to respCh, and the
\* largest backoff of the stream is kept.
OnResponse(w, resp, resolve) ==
    LET v == onBackupResponse(resp, resolve)
    IN IF v.err
       THEN /\ WorkerFail(w)
            /\ UNCHANGED <<respCh, hintMax>>
       ELSE /\ wmax' = [wmax EXCEPT ![w] =
                           IF wmax[w] < v.backoffMs THEN v.backoffMs ELSE wmax[w]]
            /\ hintMax' = IF hintMax < v.backoffMs THEN v.backoffMs ELSE hintMax
            /\ IF v.response # <<>>
               THEN /\ Len(respCh) < RespChCap
                    /\ respCh' = Append(respCh, v.response[1])
               ELSE UNCHANGED respCh
            /\ wpos' = [wpos EXCEPT ![w] = resp.EndKey]
            /\ UNCHANGED <<errCh, wpc, wrg>>

\* The store streams a successful response for the next piece of the request.
WorkerRespOk(w) ==
    /\ wpc[w] = "stream"
    /\ \E y \in (wpos[w] + 1) .. FineReq(wrg[w]).EndKey :
       \E fs \in FilesFor(wpos[w], y) :
          /\ NamesIn(fs) \subseteq NamesToUse(namesSeen)
          /\ namesSeen' = namesSeen \cup NamesIn(fs)
          /\ OnResponse(w, BackupResponse(wpos[w], y, fs, ErrNil),
                        [err |-> FALSE, ms |-> 0])
    /\ UNCHANGED outsideRange
    /\ UNCHANGED <<pipeVars, incomplete, dpc, dIdx, retry, retryClosed,
                   respClosed, maxMs, covBefore>>

\* The store streams an error response for the next piece of the request.
\* Region errors that ask for a retry come only while the backoffer has slept
\* less than MaxRegionRetries times for them.
WorkerRespErr(w) ==
    /\ wpc[w] = "stream"
    /\ \E y \in (wpos[w] + 1) .. FineReq(wrg[w]).EndKey :
       \E e \in StoreErrors :
       \E resolve \in IF e = ErrKv(TRUE) THEN ResolveOutcomes
                       ELSE {[err |-> FALSE, ms |-> 0]} :
          /\ e.Detail = "RegionError" /\ e.Region \cap RetryableRegionErrs # {}
                => boTotal < MaxRegionRetries * RegionBackoffMs
          /\ OnResponse(w, BackupResponse(wpos[w], y, <<>>, e), resolve)
    /\ UNCHANGED <<namesSeen, outsideRange>>
    /\ UNCHANGED <<pipeVars, incomplete, dpc, dIdx, retry, retryClosed,
                   respClosed, maxMs, covBefore>>

\* The stream ends (the store answers for no further piece of the request):
\* handleFineGrained returns its maximum.
WorkerStreamEnd(w) ==
    /\ wpc[w] = "stream"
    /\ wpc' = [wpc EXCEPT ![w] = "max"]
    /\ wrg' = [wrg EXCEPT ![w] = NoRange]
    /\ wpos' = [wpos EXCEPT ![w] = 0]
    /\ UNCHANGED <<namesSeen, outsideRange>>
    /\ UNCHANGED <<pipeVars, incomplete, dpc, dIdx, retry, retryClosed, respCh,
                   respClosed, errCh, wmax, maxMs, covBefore, hintMax>>

\* SendBackup fails on the connection: handleFineGrained returns the error.
WorkerSendFail(w) ==
    /\ wpc[w] = "stream"
    /\ WorkerFail(w)
    /\ UNCHANGED <<namesSeen, outsideRange>>
    /\ UNCHANGED <<pipeVars, incomplete, dpc, dIdx, retry, retryClosed, respCh,
                   respClosed, maxMs, covBefore, hintMax>>

\* A wrong update: the shared maximum is overwritten by the worker's value.
WorkerUpdateMaxOverwrite(w) ==
    /\ wpc[w] = "max"
    /\ maxMs' = IF wmax[w] # 0 THEN wmax[w] ELSE maxMs
    /\ wpc' = [wpc EXCEPT ![w] = "recv"]
    /\ ResetLocals(w)
    /\ UNCHANGED <<namesSeen, outsideRange>>
    /\ UNCHANGED <<pipeVars, incomplete, dpc, dIdx, retry, retryClosed, respCh,
                   respClosed, errCh, covBefore, hintMax>>

\* handleFineGrained returned backoffMs: the shared maximum is updated under
\* max.mu, and the worker takes the next range.
WorkerUpdateMax(w) ==
    /\ wpc[w] = "max"
    /\ maxMs' = IF wmax[w] # 0 /\ maxMs < wmax[w] THEN wmax[w] ELSE maxMs
    /\ wpc' = [wpc EXCEPT ![w] = "recv"]
    /\ ResetLocals(w)
    /\ UNCHANGED <<namesSeen, outsideRange>>
    /\ UNCHANGED <<pipeVars, incomplete, dpc, dIdx, retry, retryClosed, respCh,
                   respClosed, errCh, covBefore, hintMax>>

(***************************************************************************)
(* fineGrainedBackup: the select loop and the backoff.                     *)
(***************************************************************************)
\* A wrong return: the tree of the failed call is drained into the manifest.
MainRecvErrDrains ==
    /\ rpc = "select"
    /\ errCh # <<>>
    /\ errCh' = Tail(errCh)
    /\ ReturnErr("fineGrained")
    /\ Files' = AppendFiles(Files, tree)
    /\ UNCHANGED <<namesSeen, outsideRange>>
    /\ UNCHANGED <<ranges, rIdx, tree, pushTodo, metaVersions, boTotal,
                   incomplete, dpc, dIdx, retry, retryClosed, respCh,
                   respClosed, wpc, wrg, wpos, wmax, maxMs, covBefore, hintMax>>

\* case err := <-errCh: return err.
MainRecvErr ==
    /\ rpc = "select"
    /\ errCh # <<>>
    /\ errCh' = Tail(errCh)
    /\ ReturnErr("fineGrained")
    /\ UNCHANGED <<namesSeen, outsideRange>>
    /\ UNCHANGED <<ranges, rIdx, tree, pushTodo, Files, metaVersions, boTotal,
                   incomplete, dpc, dIdx, retry, retryClosed, respCh,
                   respClosed, wpc, wrg, wpos, wmax, maxMs, covBefore, hintMax>>

\* case resp := <-respCh: a response with an Error is fatal (log.Fatal); any
\* other is put into the tree, and the progress channel gets its tick.
MainRecvResp ==
    /\ rpc = "select"
    /\ respCh # <<>>
    /\ LET resp == Head(respCh)
       IN IF ~resp.Error.IsNil
          THEN rpc' = "fatal" /\ UNCHANGED tree
          ELSE /\ tree' = putOk(tree, resp.StartKey, resp.EndKey, resp.Files)
               /\ UNCHANGED rpc
    /\ respCh' = Tail(respCh)
    /\ UNCHANGED <<namesSeen, outsideRange>>
    /\ UNCHANGED <<ranges, rIdx, rErr, pushTodo, Files, metaVersions, boTotal,
                   incomplete, dpc, dIdx, retry, retryClosed, respClosed,
                   errCh, wpc, wrg, wpos, wmax, maxMs, covBefore, hintMax>>

\* The channels and goroutines of an iteration that is over: the loop makes
\* new ones in the next, and nothing reads these again.
Forgotten ==
    /\ incomplete' = <<>>
    /\ dpc' = "idle" /\ dIdx' = 1
    /\ retry' = <<>> /\ retryClosed' = FALSE
    /\ respCh' = <<>> /\ respClosed' = FALSE
    /\ wpc' = [w \in Workers |-> "idle"]
    /\ wrg' = [w \in Workers |-> NoRange]
    /\ wpos' = [w \in Workers |-> 0]
    /\ wmax' = [w \in Workers |-> 0]

\* case resp, ok := <-respCh with !ok: break selectLoop.  Errors still in
\* errCh stay there, unread.
MainFinished ==
    /\ rpc = "select"
    /\ respCh = <<>> /\ respClosed
    /\ rpc' = "backoff"
    /\ Forgotten
    /\ UNCHANGED <<namesSeen, outsideRange>>
    /\ UNCHANGED <<ranges, rIdx, rErr, tree, pushTodo, Files, metaVersions, boTotal,
                   errCh, maxMs, covBefore, hintMax>>

\* Step 3: the loop backs off when max.ms is not zero.
NeedBackoff(ms) == ms # 0

\* bo.BackoffWithMaxSleep(boTxnLockFast, ms, err) sleeps at most ms; the model
\* takes the whole of ms as slept.
BackoffSleep(ms) == ms

\* The backoffer reports its budget exhausted.
BackoffExhausted(total) == total >= backupFineGrainedMaxBackoff

FineBackoff ==
    /\ rpc = "backoff"
    /\ IF NeedBackoff(maxMs)
       THEN /\ boTotal' = boTotal + BackoffSleep(maxMs)
            /\ IF BackoffExhausted(boTotal')
               THEN ReturnErr("backoff")
               ELSE rpc' = "fine" /\ UNCHANGED rErr
       ELSE rpc' = "fine" /\ UNCHANGED <<boTotal, rErr>>
    /\ maxMs' = 0
    /\ covBefore' = {}
    /\ hintMax' = 0
    /\ errCh' = <<>>
    /\ UNCHANGED <<namesSeen, outsideRange>>
    /\ UNCHANGED <<ranges, rIdx, tree, pushTodo, Files, metaVersions, incomplete, dpc,
                   dIdx, retry, retryClosed, respCh, respClosed, wpc,
                   wrg, wpos, wmax>>

NextRange ==
    \/ BackupRangeStart
    \/ PushAccept
    \/ PushDrop
    \/ PushFatal
    \/ PushDone
    \/ BackupRangeFinish
    \/ FineSpawn
    \/ DispatchSend
    \/ DispatchClose
    \/ DispatchCloseResp
    \/ \E w \in Workers : WorkerRecv(w)
    \/ \E w \in Workers : WorkerExit(w)
    \/ \E w \in Workers : WorkerLeaderFail(w)
    \/ \E w \in Workers : WorkerRespOk(w)
    \/ \E w \in Workers : WorkerRespErr(w)
    \/ \E w \in Workers : WorkerStreamEnd(w)
    \/ \E w \in Workers : WorkerSendFail(w)
    \/ \E w \in Workers : WorkerUpdateMax(w)
    \/ MainRecvErr
    \/ MainRecvResp
    \/ MainFinished
    \/ FineBackoff

(***************************************************************************)
(* BackupRanges: the goroutine that backs the ranges up one by one, and    *)
(* the supervisor loop that checks the GC safepoint while it waits.  The   *)
(* timestamps are encoded ones, 0..MaxTS.  A backupRange call is taken by  *)
(* its result.                                                             *)
(***************************************************************************)
SupResults == {"nil", "exceeded", "lookup"}

\* backer.CheckGCSafepoint(ctx, ts): the lookup of the safepoint fails, or
\* the safepoint read has reached ts, or all is well.
CheckGCSafepoint(ts, safePoint, lookupOk) ==
    IF ~lookupOk THEN "lookup"
    ELSE IF ts <= safePoint THEN "exceeded"
    ELSE "nil"

\* A wrong verdict: the supervisor reports success whatever the check found.
FinalVerdictNil(err) == "nil"

\* if finished { return err }: what the loop returns after its last check.
FinalVerdict(err) == err

\* A wrong loop: it returns after any check.
SupReturnsAtOnce(fin) == TRUE

\* if finished: the loop returns after this check.
SupReturns(fin) == fin

InitSup ==
    /\ nRanges \in 0..MaxRanges
    /\ gIdx = 1 /\ gpc = "run"
    /\ supPc = "check"
    /\ finished = FALSE
    /\ lastErr = "none"
    /\ seenSafePoint = -1
    /\ supRet = "none"
    /\ backupTS \in 1..MaxTS
    /\ gcSafePoint \in 0..MaxTS

\* BackupRanges is not running.
IdleSup ==
    /\ nRanges = 0
    /\ gIdx = 1 /\ gpc = "exit"
    /\ supPc = "returned"
    /\ finished = FALSE
    /\ lastErr = "none"
    /\ seenSafePoint = -1
    /\ supRet = "none"
    /\ backupTS = 1
    /\ gcSafePoint = 0

outsideSup ==
    <<rangeVars, tsVars, clsVars, cmdVars, sumVars, fcVars,
      chanVars>>

\* The goroutine: backupRange returned nil for the range at gIdx.
GoRangeOk ==
    /\ gpc = "run" /\ gIdx <= nRanges
    /\ gIdx' = gIdx + 1
    /\ UNCHANGED <<nRanges, gpc, supPc, finished, lastErr, seenSafePoint,
                   supRet, backupTS, gcSafePoint, outsideSup>>

\* The goroutine: backupRange returned an error; errCh <- err is next, and
\* errCh has no buffer.
GoRangeErr ==
    /\ gpc = "run" /\ gIdx <= nRanges
    /\ gpc' = "send"
    /\ UNCHANGED <<nRanges, gIdx, supPc, finished, lastErr, seenSafePoint,
                   supRet, backupTS, gcSafePoint, outsideSup>>

\* The goroutine: the loop over the ranges is over, close(errCh).
GoClose ==
    /\ gpc = "run" /\ gIdx > nRanges
    /\ gpc' = "closed"
    /\ UNCHANGED <<nRanges, gIdx, supPc, finished, lastErr, seenSafePoint,
                   supRet, backupTS, gcSafePoint, outsideSup>>

\* The head of the loop: the check, the warning when it returns an error,
\* and the return when finished.
SupCheck ==
    /\ supPc = "check"
    /\ \E lookupOk \in BOOLEAN :
          LET err == CheckGCSafepoint(backupTS, gcSafePoint, lookupOk)
          IN /\ lastErr' = err
             /\ seenSafePoint' = IF lookupOk THEN gcSafePoint ELSE -1
             /\ IF SupReturns(finished)
                THEN supRet' = FinalVerdict(err) /\ supPc' = "returned"
                ELSE supPc' = "select" /\ UNCHANGED supRet
    /\ UNCHANGED <<nRanges, gIdx, gpc, finished, backupTS, gcSafePoint,
                   outsideSup>>

\* case err, ok := <-errCh with the goroutine at its send: err != nil.
SupRecvErr ==
    /\ supPc = "select" /\ gpc = "send"
    /\ gpc' = "exit"
    /\ supRet' = "range" /\ supPc' = "returned"
    /\ UNCHANGED <<nRanges, gIdx, finished, lastErr, seenSafePoint, backupTS,
                   gcSafePoint, outsideSup>>

\* case err, ok := <-errCh with errCh closed: finished = true, err is nil.
SupRecvClosed ==
    /\ supPc = "select" /\ gpc = "closed"
    /\ finished' = TRUE
    /\ supPc' = "check"
    /\ UNCHANGED <<nRanges, gIdx, gpc, lastErr, seenSafePoint, supRet,
                   backupTS, gcSafePoint, outsideSup>>

\* case <-t.C: thirty seconds have passed.
SupTick ==
    /\ supPc = "select"
    /\ supPc' = "check"
    /\ UNCHANGED <<nRanges, gIdx, gpc, finished, lastErr, seenSafePoint,
                   supRet, backupTS, gcSafePoint, outsideSup>>

\* The cluster's garbage collector moves the safepoint forward.
AdvanceSafepoint ==
    /\ supPc # "returned"
    /\ gcSafePoint < MaxTS
    /\ gcSafePoint' = gcSafePoint + 1
    /\ UNCHANGED <<nRanges, gIdx, gpc, supPc, finished, lastErr,
                   seenSafePoint, supRet, backupTS, outsideSup>>

NextSup ==
    \/ GoRangeOk
    \/ GoRangeErr
    \/ GoClose
    \/ SupCheck
    \/ SupRecvErr
    \/ SupRecvClosed
    \/ SupTick
    \/ AdvanceSafepoint

(***************************************************************************)
(* GetTS: the backup timestamp, from the clock of PD and --timeago.        *)
(***************************************************************************)
\* int64(time.Millisecond): a Duration counts nanoseconds.
Millisecond == 1000000

\* Go's integer division: the quotient is truncated toward zero.
GoDiv(a, b) == IF a >= 0 THEN a \div b ELSE -((-a) \div b)

\* The --timeago flag: empty, or a text time.ParseDuration rejects, or one
\* it parses to a number of nanoseconds.
NoTimeAgo == [empty |-> TRUE, valid |-> TRUE, ns |-> 0]

BadTimeAgo == [empty |-> FALSE, valid |-> FALSE, ns |-> 0]

TimeAgos ==
    {NoTimeAgo, BadTimeAgo} \cup
    {[empty |-> FALSE, valid |-> TRUE, ns |-> k * (Millisecond \div 2)] :
        k \in (-2) .. (2 * MaxPhysical + 2)}

\* meta.EncodeTs: the physical milliseconds above the 18 bits of the
\* logical counter.
EncodeTs(physical, logical) == physical * (2 ^ 18) + logical

\* The physical part of an encoded timestamp.
PhysicalOf(ts) == ts \div (2 ^ 18)

\* The test of GetTS on the time asked for.
ExceedsSafePoint(p, t, safePoint) == p - t < safePoint

TsErr == [err |-> TRUE, ts |-> 0]

TsOk(ts) == [err |-> FALSE, ts |-> ts]

InitTS ==
    /\ tsPc = "call"
    /\ pdPhysical \in 0..MaxPhysical
    /\ pdLogical \in 0..MaxLogical
    /\ timeAgo \in TimeAgos
    /\ safePointPhysical \in 0..MaxPhysical
    /\ tsRet = TsErr

\* GetTS is not running.
IdleTS ==
    /\ tsPc = "idle"
    /\ pdPhysical = 0 /\ pdLogical = 0
    /\ timeAgo = NoTimeAgo
    /\ safePointPhysical = 0
    /\ tsRet = TsErr

outsideTS ==
    <<rangeVars, supVars, clsVars, cmdVars, sumVars, fcVars,
      chanVars>>

\* GetTS(timeAgo), whole: pdErr and safePointErr say whether the calls to PD
\* and to the backer fail.
GetTS ==
    /\ tsPc = "call"
    /\ \E pdErr \in BOOLEAN, safePointErr \in BOOLEAN :
          tsRet' =
             IF pdErr THEN TsErr
             ELSE IF timeAgo.empty THEN TsOk(EncodeTs(pdPhysical, pdLogical))
             ELSE IF ~timeAgo.valid THEN TsErr
             ELSE LET t == GoDiv(timeAgo.ns, Millisecond)
                  IN IF safePointErr THEN TsErr
                     ELSE IF ExceedsSafePoint(pdPhysical, t, safePointPhysical)
                          THEN TsErr
                          ELSE TsOk(EncodeTs(pdPhysical - t, pdLogical))
    /\ tsPc' = "returned"
    /\ UNCHANGED <<pdPhysical, pdLogical, timeAgo, safePointPhysical,
                   outsideTS>>

NextTS == GetTS

(***************************************************************************)
(* onBackupResponse on every kind of response.                             *)
(***************************************************************************)
NoVerdict == Verdict(<<>>, 0, FALSE)

InitClassify ==
    /\ clsPc = "call"
    /\ clsResp \in {BackupResponse(0, 1, <<>>, e) : e \in AllErrors}
    /\ clsResolve \in ResolveOutcomes
    /\ clsOut = NoVerdict

\* The classifier is not running.
IdleClassify ==
    /\ clsPc = "idle"
    /\ clsResp = BackupResponse(0, 1, <<>>, ErrNil)
    /\ clsResolve = [err |-> FALSE, ms |-> 0]
    /\ clsOut = NoVerdict

outsideClassify ==
    <<rangeVars, supVars, tsVars, cmdVars, sumVars, fcVars,
      chanVars>>

\* One call of onBackupResponse; clsResolve is what ResolveLocks answers if
\* the call asks it.
Classify ==
    /\ clsPc = "call"
    /\ clsOut' = onBackupResponse(clsResp, clsResolve)
    /\ clsPc' = "returned"
    /\ UNCHANGED <<clsResp, clsResolve, outsideClassify>>

NextClassify == Classify

(***************************************************************************)
(* The backup commands (cmd/raw.go): RunE of `full` and of `table`, step   *)
(* by step.  A call into the client is taken by whether it fails.          *)
(***************************************************************************)
CmdKinds == {"full", "table"}

InitCmd ==
    /\ cmdKind \in CmdKinds
    /\ cmdPc = "backer"
    /\ cmdRet = "none"
    /\ uEmpty \in BOOLEAN
    /\ dbEmpty \in BOOLEAN
    /\ tableEmpty \in BOOLEAN
    /\ concurrencyZero \in BOOLEAN
    /\ checksumSwitch \in BOOLEAN
    /\ metaPre \in BOOLEAN
    /\ metaWrites = 0
    /\ cmdWork = {}
    /\ cmdLog = <<>>

\* No command is running.
IdleCmd ==
    /\ cmdKind = "full"
    /\ cmdPc = "returned"
    /\ cmdRet = "none"
    /\ uEmpty = FALSE /\ dbEmpty = FALSE /\ tableEmpty = FALSE
    /\ concurrencyZero = FALSE /\ checksumSwitch = FALSE
    /\ metaPre = FALSE
    /\ metaWrites = 0
    /\ cmdWork = {}
    /\ cmdLog = <<>>

outsideCmd ==
    <<rangeVars, supVars, tsVars, clsVars, sumVars, fcVars,
      chanVars>>

cmdFlags == <<cmdKind, uEmpty, dbEmpty, tableEmpty, concurrencyZero,
              checksumSwitch, metaPre>>

\* RunE returns ret.
CmdReturn(ret) == cmdPc' = "returned" /\ cmdRet' = ret

\* RunE goes on to the step pc.
CmdGoto(pc) == cmdPc' = pc /\ UNCHANGED cmdRet

\* A call of RunE has returned: ok says it returned no error, valid is the
\* boolean FastChecksum returned (TRUE for every other call).
Called(step, ok, valid) ==
    cmdLog' = Append(cmdLog, [step |-> step, ok |-> ok, valid |-> valid])

\* What RunE of `full` returns when NewBackupClient fails.
FullNewClientErr == "nil"

\* What RunE of `table` returns when NewBackupClient fails.
TableNewClientErr == "NewBackupClient"

\* backer, err := GetDefaultBacker()
CmdGetBacker ==
    /\ cmdPc = "backer"
    /\ \E fails \in BOOLEAN :
          /\ Called("GetDefaultBacker", ~fails, TRUE)
          /\ IF fails THEN CmdReturn("GetDefaultBacker") ELSE CmdGoto("client")
    /\ UNCHANGED <<cmdFlags, metaWrites, cmdWork, outsideCmd>>

\* client, err := raw.NewBackupClient(backer)
CmdNewClient ==
    /\ cmdPc = "client"
    /\ \E fails \in BOOLEAN :
          /\ Called("NewBackupClient", ~fails, TRUE)
          /\ IF fails
             THEN CmdReturn(IF cmdKind = "full" THEN FullNewClientErr
                            ELSE TableNewClientErr)
             ELSE CmdGoto("storage")
    /\ UNCHANGED <<cmdFlags, metaWrites, cmdWork, outsideCmd>>

\* u, err := command.Flags().GetString(FlagStorage); u == "" is an error.
CmdStorageFlag ==
    /\ cmdPc = "storage"
    /\ IF uEmpty THEN CmdReturn("empty backup store") ELSE CmdGoto("setStorage")
    /\ UNCHANGED <<cmdFlags, metaWrites, cmdWork, cmdLog, outsideCmd>>

\* SetStorage(base): CreateStorage fails, or backupmeta is there already.
SetStorage(createFails, metaExists) ==
    IF createFails THEN "CreateStorage"
    ELSE IF metaExists THEN "backup meta exists"
    ELSE "nil"

\* err = client.SetStorage(u)
CmdSetStorage ==
    /\ cmdPc = "setStorage"
    /\ \E createFails \in BOOLEAN :
          LET err == SetStorage(createFails, metaPre)
          IN /\ Called("SetStorage", err = "nil", TRUE)
             /\ IF err # "nil" THEN CmdReturn(err)
                ELSE CmdGoto(IF cmdKind = "table" THEN "dbTable" ELSE "getTS")
    /\ UNCHANGED <<cmdFlags, metaWrites, cmdWork, outsideCmd>>

\* `table` only: the db and table flags must not be empty.
CmdDbTable ==
    /\ cmdPc = "dbTable"
    /\ IF dbEmpty THEN CmdReturn("empty database name")
       ELSE IF tableEmpty THEN CmdReturn("empty table name")
       ELSE CmdGoto("getTS")
    /\ UNCHANGED <<cmdFlags, metaWrites, cmdWork, cmdLog, outsideCmd>>

\* backupTS, err := client.GetTS(timeAgo)
CmdGetTS ==
    /\ cmdPc = "getTS"
    /\ cmdWork' = cmdWork \cup {"GetTS"}
    /\ \E fails \in BOOLEAN :
          /\ Called("GetTS", ~fails, TRUE)
          /\ IF fails THEN CmdReturn("GetTS") ELSE CmdGoto("concurrency")
    /\ UNCHANGED <<cmdFlags, metaWrites, outsideCmd>>

\* A wrong order: the planner runs before concurrency is looked at.
CmdConcurrencyAfterPlan ==
    /\ cmdPc = "concurrency"
    /\ cmdWork' = cmdWork \cup {"PreBackup"}
    /\ IF concurrencyZero THEN CmdReturn("at least one thread required")
       ELSE CmdGoto("plan")
    /\ UNCHANGED <<cmdFlags, metaWrites, cmdLog, outsideCmd>>

\* concurrency == 0 is an error.
CmdConcurrency ==
    /\ cmdPc = "concurrency"
    /\ IF concurrencyZero THEN CmdReturn("at least one thread required")
       ELSE CmdGoto("plan")
    /\ UNCHANGED <<cmdFlags, metaWrites, cmdWork, cmdLog, outsideCmd>>

\* ranges, err := client.PreBackupAllTableRanges(backupTS), or
\* client.PreBackupTableRanges(db, table, u, backupTS).
CmdPlan ==
    /\ cmdPc = "plan"
    /\ cmdWork' = cmdWork \cup {"PreBackup"}
    /\ \E fails \in BOOLEAN :
          /\ Called("PreBackup", ~fails, TRUE)
          /\ IF fails THEN CmdReturn("PreBackup") ELSE CmdGoto("regions")
    /\ UNCHANGED <<cmdFlags, metaWrites, outsideCmd>>

\* client.GetRangeRegionCount, for the progress bar.
CmdRegionCount ==
    /\ cmdPc = "regions"
    /\ \E fails \in BOOLEAN :
          /\ Called("GetRangeRegionCount", ~fails, TRUE)
          /\ IF fails THEN CmdReturn("GetRangeRegionCount")
             ELSE CmdGoto("backup")
    /\ UNCHANGED <<cmdFlags, metaWrites, cmdWork, outsideCmd>>

\* err = client.BackupRanges(ranges, u, backupTS, rate, concurrency, updateCh)
CmdBackupRanges ==
    /\ cmdPc = "backup"
    /\ cmdWork' = cmdWork \cup {"BackupRanges"}
    /\ \E fails \in BOOLEAN :
          /\ Called("BackupRanges", ~fails, TRUE)
          /\ IF fails THEN CmdReturn("BackupRanges") ELSE CmdGoto("complete")
    /\ UNCHANGED <<cmdFlags, metaWrites, outsideCmd>>

\* A wrong handler: the error of CompleteMeta is dropped.
CmdCompleteMetaErrDropped ==
    /\ cmdPc = "complete"
    /\ cmdWork' = cmdWork \cup {"CompleteMeta"}
    /\ \E fails \in BOOLEAN :
          /\ Called("CompleteMeta", ~fails, TRUE)
          /\ CmdGoto("checksum")
    /\ UNCHANGED <<cmdFlags, metaWrites, outsideCmd>>

\* err = client.CompleteMeta()
CmdCompleteMeta ==
    /\ cmdPc = "complete"
    /\ cmdWork' = cmdWork \cup {"CompleteMeta"}
    /\ \E fails \in BOOLEAN :
          /\ Called("CompleteMeta", ~fails, TRUE)
          /\ IF fails THEN CmdReturn("CompleteMeta") ELSE CmdGoto("checksum")
    /\ UNCHANGED <<cmdFlags, metaWrites, outsideCmd>>

\* A wrong handler: a checksum that is not valid ends the command.
CmdChecksumStrict ==
    /\ cmdPc = "checksum"
    /\ IF checksumSwitch
       THEN /\ cmdWork' = cmdWork \cup {"FastChecksum"}
            /\ \E fails \in BOOLEAN, valid \in BOOLEAN :
                  /\ Called("FastChecksum", ~fails, fails \/ valid)
                  /\ IF fails \/ ~valid THEN CmdReturn("FastChecksum")
                     ELSE CmdGoto("save")
       ELSE CmdGoto("save") /\ UNCHANGED <<cmdWork, cmdLog>>
    /\ UNCHANGED <<cmdFlags, metaWrites, outsideCmd>>

\* With --checksum: valid, err := client.FastChecksum(); a checksum that is
\* not valid is logged.
CmdChecksum ==
    /\ cmdPc = "checksum"
    /\ IF checksumSwitch
       THEN /\ cmdWork' = cmdWork \cup {"FastChecksum"}
            /\ \E fails \in BOOLEAN, valid \in BOOLEAN :
                  /\ Called("FastChecksum", ~fails, fails \/ valid)
                  /\ IF fails THEN CmdReturn("FastChecksum")
                     ELSE CmdGoto("save")
       ELSE CmdGoto("save") /\ UNCHANGED <<cmdWork, cmdLog>>
    /\ UNCHANGED <<cmdFlags, metaWrites, outsideCmd>>

\* return client.SaveBackupMeta(u): the manifest is marshalled and written.
CmdSave ==
    /\ cmdPc = "save"
    /\ cmdWork' = cmdWork \cup {"SaveBackupMeta"}
    /\ \E marshalFails \in BOOLEAN, writeFails \in BOOLEAN :
          /\ Called("SaveBackupMeta", ~marshalFails /\ ~writeFails, TRUE)
          /\ IF marshalFails
             THEN CmdReturn("Marshal") /\ UNCHANGED metaWrites
             ELSE /\ metaWrites' = metaWrites + 1
                  /\ CmdReturn(IF writeFails THEN "Write" ELSE "nil")
    /\ UNCHANGED <<cmdFlags, outsideCmd>>

NextCmd ==
    \/ CmdGetBacker
    \/ CmdNewClient
    \/ CmdStorageFlag
    \/ CmdSetStorage
    \/ CmdDbTable
    \/ CmdGetTS
    \/ CmdConcurrency
    \/ CmdPlan
    \/ CmdRegionCount
    \/ CmdBackupRanges
    \/ CmdCompleteMeta
    \/ CmdChecksum
    \/ CmdSave

(***************************************************************************)
(* The schema-checksum pipeline: startTableChecksum, called by the planner *)
(* for every table, the tasks it hands to the worker pool, and             *)
(* finishTableChecksum, called by CompleteMeta after BackupRanges.         *)
(* checksumCh and errCh have no buffer.                                    *)
(***************************************************************************)
Tables == 1..MaxTables

Unset == <<"unset">>

\* The (dbName, tableName) pairs of the tables of a plan.
TableIds == {<<"a", "b.c">>, <<"a.b", "c">>, <<"a", "c">>}

\* name := fmt.Sprintf("%s.%s", dbName, tableName)
SchemaName(id) == id[1] \o "." \o id[2]

\* bs.meta[name] = schema, the schema being the one of table t.
MetaPut(m, name, t) == {e \in m : e[1] # name} \cup {<<name, t>>}

\* bs.meta[checksum.name]
MetaGet(m, name) == (CHOOSE e \in m : e[1] = name)[2]

\* The states of a task in which its deferred bs.wg.Done() has run.
WgDoneBeforeSend(st) == st \in {"done", "failed", "sendErr"}

\* The states of a task in which its deferred bs.wg.Done() has run: after
\* its send was received.
WgDone(st) == st \in {"done", "failed"}

\* The tasks that hold a worker of the pool.
Busy == {t \in Tables : tpc[t] \in {"run", "sendSum", "sendErr"}}

\* The tasks whose getChecksumFromTiDB returned an error.
FailedTasks == {t \in Tables : tpc[t] \in {"sendErr", "failed"}}

InitSum ==
    /\ nTables \in 0..MaxTables
    /\ poolSize \in 1..MaxPool
    /\ applied = 0
    /\ tpc = [t \in Tables |-> "none"]
    /\ jpc = "plan"
    /\ sumClosed = FALSE
    /\ joinSchemas = <<>>
    /\ joinRet = "none"
    /\ metaSchemas = Unset
    /\ tblNames \in {f \in [1..nTables -> TableIds] :
                        \A t1, t2 \in 1..nTables : t1 # t2 => f[t1] # f[t2]}
    /\ meta = {}

\* No checksum pipeline is running.
IdleSum ==
    /\ nTables = 0
    /\ poolSize = 1
    /\ applied = 0
    /\ tpc = [t \in Tables |-> "none"]
    /\ jpc = "idle"
    /\ sumClosed = FALSE
    /\ joinSchemas = <<>>
    /\ joinRet = "none"
    /\ metaSchemas = Unset
    /\ tblNames = <<>>
    /\ meta = {}

outsideSum ==
    <<rangeVars, supVars, tsVars, clsVars, cmdVars, fcVars,
      chanVars>>

\* startTableChecksum for the next table: bs.meta[name] = schema,
\* bs.wg.Add(1), and workerPool.Apply, which waits for a free worker and
\* starts the task on it.
StartTableChecksum ==
    /\ jpc = "plan"
    /\ applied < nTables
    /\ Cardinality(Busy) < poolSize
    /\ applied' = applied + 1
    /\ tpc' = [tpc EXCEPT ![applied + 1] = "run"]
    /\ meta' = MetaPut(meta, SchemaName(tblNames[applied + 1]), applied + 1)
    /\ UNCHANGED <<nTables, tblNames, poolSize, jpc, sumClosed, joinSchemas,
                   joinRet, metaSchemas, outsideSum>>

\* The planner is through with the tables, the ranges are backed up, and
\* CompleteMeta calls finishTableChecksum, which starts the goroutine that
\* waits for the tasks.
FinishTableChecksumStart ==
    /\ jpc = "plan"
    /\ applied = nTables
    /\ jpc' = "join"
    /\ UNCHANGED <<nTables, tblNames, poolSize, applied, tpc, sumClosed, joinSchemas,
                   joinRet, metaSchemas, meta, outsideSum>>

\* A task: getChecksumFromTiDB returned a checksum; bs.checksumCh <- checksum
\* is next.
TaskChecksum(t) ==
    /\ tpc[t] = "run"
    /\ tpc' = [tpc EXCEPT ![t] = "sendSum"]
    /\ UNCHANGED <<nTables, tblNames, poolSize, applied, jpc, sumClosed, joinSchemas,
                   joinRet, metaSchemas, meta, outsideSum>>

\* A task: getChecksumFromTiDB returned an error; bs.errCh <- err is next.
TaskError(t) ==
    /\ tpc[t] = "run"
    /\ tpc' = [tpc EXCEPT ![t] = "sendErr"]
    /\ UNCHANGED <<nTables, tblNames, poolSize, applied, jpc, sumClosed, joinSchemas,
                   joinRet, metaSchemas, meta, outsideSum>>

\* The goroutine of finishTableChecksum: bs.wg.Wait() is over,
\* close(bs.checksumCh).
JoinClose ==
    /\ jpc \in {"join", "returned"}
    /\ ~sumClosed
    /\ \A t \in 1..nTables : WgDone(tpc[t])
    /\ sumClosed' = TRUE
    /\ UNCHANGED <<nTables, tblNames, poolSize, applied, tpc, jpc, joinSchemas, joinRet,
                   metaSchemas, meta, outsideSum>>

\* case checksum, ok := <-bs.checksumCh with a task at its send: the schema
\* of the table gets the checksum and is appended to schemas.
JoinRecvChecksum(t) ==
    /\ jpc = "join"
    /\ tpc[t] = "sendSum"
    /\ tpc' = [tpc EXCEPT ![t] = "done"]
    /\ joinSchemas' = Append(joinSchemas,
                             [schema |-> MetaGet(meta, SchemaName(tblNames[t])),
                              checksum |-> t])
    /\ UNCHANGED <<nTables, tblNames, poolSize, applied, jpc, sumClosed, joinRet,
                   metaSchemas, meta, outsideSum>>

\* case checksum, ok := <-bs.checksumCh with !ok: return schemas, nil, and
\* CompleteMeta sets bc.backupMeta.Schemas.
JoinRecvClosed ==
    /\ jpc = "join"
    /\ sumClosed
    /\ joinRet' = "schemas"
    /\ metaSchemas' = joinSchemas
    /\ jpc' = "returned"
    /\ UNCHANGED <<nTables, tblNames, poolSize, applied, tpc, sumClosed, joinSchemas,
                   meta, outsideSum>>

\* case err := <-bs.errCh with a task at its send: return nil, err, and
\* CompleteMeta returns err.
JoinRecvErr(t) ==
    /\ jpc = "join"
    /\ tpc[t] = "sendErr"
    /\ tpc' = [tpc EXCEPT ![t] = "failed"]
    /\ joinRet' = "err"
    /\ jpc' = "returned"
    /\ UNCHANGED <<nTables, tblNames, poolSize, applied, sumClosed, joinSchemas,
                   metaSchemas, meta, outsideSum>>

NextSum ==
    \/ StartTableChecksum
    \/ FinishTableChecksumStart
    \/ \E t \in Tables : TaskChecksum(t)
    \/ \E t \in Tables : TaskError(t)
    \/ JoinClose
    \/ \E t \in Tables : JoinRecvChecksum(t)
    \/ JoinRecvClosed
    \/ \E t \in Tables : JoinRecvErr(t)

(***************************************************************************)
(* FastChecksum: for every schema of the manifest, the checksums of the    *)
(* files of its table are folded and compared with the catalog's.  A word  *)
(* is WordBits wide here, with the wrap-around of the uint64 of the code.  *)
(***************************************************************************)
Word == 2 ^ WordBits

RECURSIVE BitXor(_, _)
\* a ^ b on naturals.
BitXor(a, b) ==
    IF a = 0 /\ b = 0 THEN 0
    ELSE (((a % 2) + (b % 2)) % 2) + 2 * BitXor(a \div 2, b \div 2)

\* The checksums a file carries.
FileStats ==
    [Crc64Xor : {0, 1, Word - 1}, TotalKvs : {0, 1, Word - 1},
     TotalBytes : {0, Word - 1}]

\* A wrong fold: the crc64 of the files are added.
Crc64FoldSum(acc, crc) == (acc + crc) % Word

\* checksum ^= file.Crc64Xor
Crc64Fold(acc, crc) == BitXor(acc, crc)

\* totalKvs += file.TotalKvs, totalBytes += file.TotalBytes
SumFold(acc, n) == (acc + n) % Word

RECURSIVE XorOfFiles(_)
\* The xor of Crc64Xor over a table's files.
XorOfFiles(files) ==
    IF files = <<>> THEN 0
    ELSE BitXor(Head(files).Crc64Xor, XorOfFiles(Tail(files)))

RECURSIVE KvsOfFiles(_)
\* The sum of TotalKvs over a table's files.
KvsOfFiles(files) ==
    IF files = <<>> THEN 0 ELSE Head(files).TotalKvs + KvsOfFiles(Tail(files))

RECURSIVE BytesOfFiles(_)
\* The sum of TotalBytes over a table's files.
BytesOfFiles(files) ==
    IF files = <<>> THEN 0
    ELSE Head(files).TotalBytes + BytesOfFiles(Tail(files))

\* The catalog checksums a schema may record for a table with these files:
\* the ones that agree with the files, and ones that differ in one of the
\* three.
SchemaStats(files) ==
    LET c == XorOfFiles(files)
        k == KvsOfFiles(files) % Word
        b == BytesOfFiles(files) % Word
    IN {[Crc64Xor |-> c, TotalKvs |-> k, TotalBytes |-> b],
        [Crc64Xor |-> (c + 1) % Word, TotalKvs |-> k, TotalBytes |-> b],
        [Crc64Xor |-> c, TotalKvs |-> (k + 1) % Word, TotalBytes |-> b],
        [Crc64Xor |-> c, TotalKvs |-> k, TotalBytes |-> (b + 1) % Word]}

\* The schema agrees with the files of its table in all three.
Agrees(schema, files) ==
    /\ schema.Crc64Xor = XorOfFiles(files)
    /\ schema.TotalKvs = KvsOfFiles(files) % Word
    /\ schema.TotalBytes = BytesOfFiles(files) % Word

InitFC ==
    /\ fcPc = "loop"
    /\ fcN \in 0..MaxTables
    /\ fcIdx = 1
    /\ fcFiles = <<>>
    /\ checksum = 0 /\ totalKvs = 0 /\ totalBytes = 0
    /\ fcMismatch = FALSE
    /\ fcRet = "none"

\* FastChecksum is not running.
IdleFC ==
    /\ fcPc = "idle"
    /\ fcN = 0
    /\ fcIdx = 1
    /\ fcFiles = <<>>
    /\ checksum = 0 /\ totalKvs = 0 /\ totalBytes = 0
    /\ fcMismatch = FALSE
    /\ fcRet = "none"

outsideFC ==
    <<rangeVars, supVars, tsVars, clsVars, cmdVars, sumVars,
      chanVars>>

\* for _, file := range tbl.Files: the next file of the table.
FCFile ==
    /\ fcPc = "loop" /\ fcIdx <= fcN
    /\ Len(fcFiles) < MaxFiles
    /\ \E file \in FileStats :
          /\ fcFiles' = Append(fcFiles, file)
          /\ checksum' = Crc64Fold(checksum, file.Crc64Xor)
          /\ totalKvs' = SumFold(totalKvs, file.TotalKvs)
          /\ totalBytes' = SumFold(totalBytes, file.TotalBytes)
    /\ UNCHANGED <<fcPc, fcN, fcIdx, fcMismatch, fcRet, outsideFC>>

\* The table has no more files: the three are compared with the schema's;
\* when they are equal the loop goes on to the next schema, when not
\* FastChecksum returns false, nil.
FCCompare ==
    /\ fcPc = "loop" /\ fcIdx <= fcN
    /\ \E schema \in SchemaStats(fcFiles) :
          /\ fcMismatch' = (fcMismatch \/ ~Agrees(schema, fcFiles))
          /\ IF /\ schema.Crc64Xor = checksum
                /\ schema.TotalKvs = totalKvs
                /\ schema.TotalBytes = totalBytes
             THEN fcIdx' = fcIdx + 1 /\ UNCHANGED <<fcPc, fcRet>>
             ELSE fcPc' = "returned" /\ fcRet' = "false" /\ UNCHANGED fcIdx
    /\ fcFiles' = <<>>
    /\ checksum' = 0 /\ totalKvs' = 0 /\ totalBytes' = 0
    /\ UNCHANGED <<fcN, outsideFC>>

\* The loop over the schemas is over: return true, nil.
FCReturnTrue ==
    /\ fcPc = "loop" /\ fcIdx > fcN
    /\ fcPc' = "returned" /\ fcRet' = "true"
    /\ UNCHANGED <<fcN, fcIdx, fcFiles, checksum, totalKvs, totalBytes,
                   fcMismatch, outsideFC>>

NextFC ==
    \/ FCFile
    \/ FCCompare
    \/ FCReturnTrue

(***************************************************************************)
(* The goroutines and channels of one iteration of fineGrainedBackup, with *)
(* every message reduced to its presence: the dispatcher, the four         *)
(* workers, the select loop, and the progress channel the loop ticks.      *)
(* A stream may carry more responses than respCh holds.                    *)
(***************************************************************************)
\* close(retry) is done once the dispatcher is past its loop.
chRetryClosed == chDisp \in {"wait", "done"}

\* close(respCh) is the dispatcher's last statement.
chRespClosed == chDisp = "done"

\* A goroutine at a channel send that no one will ever receive from, the
\* select loop being gone.
BlockedWorker(w) == chW[w] = "send" /\ chResp = RespChCap

BlockedDispatcher ==
    /\ chDisp = "send" /\ chTodo > 0
    /\ chRetry = RetryChCap
    /\ \A w \in Workers : chW[w] = "done"

\* Step 2 has made the channels and started the goroutines.
InitChan ==
    /\ chMain = "select"
    /\ chDisp = "send"
    /\ chTodo \in 1..MaxGaps
    /\ chRetry = 0 /\ chResp = 0 /\ chErr = 0
    /\ chW = [w \in Workers |-> "recv"]
    /\ chSent = 0
    /\ chUpd = 0
    /\ chUpdCap \in 0..MaxUpdateCap
    /\ chStalled \in BOOLEAN

\* No iteration is running.
IdleChan ==
    /\ chMain = "idle"
    /\ chDisp = "done"
    /\ chTodo = 0
    /\ chRetry = 0 /\ chResp = 0 /\ chErr = 0
    /\ chW = [w \in Workers |-> "done"]
    /\ chSent = 0
    /\ chUpd = 0
    /\ chUpdCap = 0
    /\ chStalled = FALSE

outsideChan == <<rangeVars, supVars, tsVars, clsVars, cmdVars, sumVars, fcVars>>

\* The dispatcher: retry <- rg, which waits while retry is full.
ChanDispatchSend ==
    /\ chDisp = "send" /\ chTodo > 0
    /\ chRetry < RetryChCap
    /\ chRetry' = chRetry + 1
    /\ chTodo' = chTodo - 1
    /\ UNCHANGED <<chMain, chDisp, chResp, chErr, chW, chSent, chUpd, chUpdCap,
                   chStalled, outsideChan>>

\* The dispatcher: close(retry), then wg.Wait().
ChanDispatchClose ==
    /\ chDisp = "send" /\ chTodo = 0
    /\ chDisp' = "wait"
    /\ UNCHANGED <<chMain, chTodo, chRetry, chResp, chErr, chW, chSent, chUpd,
                   chUpdCap, chStalled, outsideChan>>

\* The dispatcher: wg.Wait() returns, close(respCh).
ChanDispatchCloseResp ==
    /\ chDisp = "wait"
    /\ \A w \in Workers : chW[w] = "done"
    /\ chDisp' = "done"
    /\ UNCHANGED <<chMain, chTodo, chRetry, chResp, chErr, chW, chSent, chUpd,
                   chUpdCap, chStalled, outsideChan>>

\* A worker: for rg := range retry receives a range, and handleFineGrained
\* sends its request.
ChanWorkerRecv(w) ==
    /\ chW[w] = "recv"
    /\ chRetry > 0
    /\ chRetry' = chRetry - 1
    /\ chW' = [chW EXCEPT ![w] = "stream"]
    /\ UNCHANGED <<chMain, chDisp, chTodo, chResp, chErr, chSent, chUpd,
                   chUpdCap, chStalled, outsideChan>>

\* A worker: retry is closed and drained, the worker returns.
ChanWorkerExit(w) ==
    /\ chW[w] = "recv"
    /\ chRetry = 0 /\ chRetryClosed
    /\ chW' = [chW EXCEPT ![w] = "done"]
    /\ UNCHANGED <<chMain, chDisp, chTodo, chRetry, chResp, chErr, chSent,
                   chUpd, chUpdCap, chStalled, outsideChan>>

\* The callback of SendBackup got a response the classifier returns:
\* respCh <- response is next.
ChanWorkerResponse(w) ==
    /\ chW[w] = "stream"
    /\ chSent < MaxResponses
    /\ chSent' = chSent + 1
    /\ chW' = [chW EXCEPT ![w] = "send"]
    /\ UNCHANGED <<chMain, chDisp, chTodo, chRetry, chResp, chErr, chUpd,
                   chUpdCap, chStalled, outsideChan>>

\* respCh <- response, which waits while respCh is full.
ChanWorkerSend(w) ==
    /\ chW[w] = "send"
    /\ chResp < RespChCap
    /\ chResp' = chResp + 1
    /\ chW' = [chW EXCEPT ![w] = "stream"]
    /\ UNCHANGED <<chMain, chDisp, chTodo, chRetry, chErr, chSent, chUpd,
                   chUpdCap, chStalled, outsideChan>>

\* The stream ends: handleFineGrained returns, the worker takes the next
\* range.
ChanWorkerStreamEnd(w) ==
    /\ chW[w] = "stream"
    /\ chW' = [chW EXCEPT ![w] = "recv"]
    /\ UNCHANGED <<chMain, chDisp, chTodo, chRetry, chResp, chErr, chSent,
                   chUpd, chUpdCap, chStalled, outsideChan>>

\* handleFineGrained returns an error: errCh <- err (errCh holds one error
\* of each worker), and the worker returns.
ChanWorkerFail(w) ==
    /\ chW[w] = "stream"
    /\ chErr' = chErr + 1
    /\ chW' = [chW EXCEPT ![w] = "done"]
    /\ UNCHANGED <<chMain, chDisp, chTodo, chRetry, chResp, chSent, chUpd,
                   chUpdCap, chStalled, outsideChan>>

\* case err := <-errCh: return err.  Nothing is closed or cancelled.
ChanMainRecvErr ==
    /\ chMain = "select"
    /\ chErr > 0
    /\ chErr' = chErr - 1
    /\ chMain' = "returned"
    /\ UNCHANGED <<chDisp, chTodo, chRetry, chResp, chW, chSent, chUpd,
                   chUpdCap, chStalled, outsideChan>>

\* case resp := <-respCh: the response is put into the tree;
\* updateCh <- struct{}{} is next.
ChanMainRecvResp ==
    /\ chMain = "select"
    /\ chResp > 0
    /\ chResp' = chResp - 1
    /\ chMain' = "tick"
    /\ UNCHANGED <<chDisp, chTodo, chRetry, chErr, chW, chSent, chUpd,
                   chUpdCap, chStalled, outsideChan>>

\* updateCh <- struct{}{}, which waits while updateCh is full.
ChanMainTick ==
    /\ chMain = "tick"
    /\ chUpd < chUpdCap \/ (chUpdCap = 0 /\ ~chStalled)
    /\ chUpd' = IF chUpdCap = 0 THEN 0 ELSE chUpd + 1
    /\ chMain' = "select"
    /\ UNCHANGED <<chDisp, chTodo, chRetry, chResp, chErr, chW, chSent,
                   chUpdCap, chStalled, outsideChan>>

\* case resp, ok := <-respCh with !ok: break selectLoop.
ChanMainFinished ==
    /\ chMain = "select"
    /\ chResp = 0 /\ chRespClosed
    /\ chMain' = "finished"
    /\ UNCHANGED <<chDisp, chTodo, chRetry, chResp, chErr, chW, chSent, chUpd,
                   chUpdCap, chStalled, outsideChan>>

\* The consumer of the progress channel takes a tick.
ChanProgressRecv ==
    /\ ~chStalled
    /\ chUpd > 0
    /\ chUpd' = chUpd - 1
    /\ UNCHANGED <<chMain, chDisp, chTodo, chRetry, chResp, chErr, chW, chSent,
                   chUpdCap, chStalled, outsideChan>>

NextChan ==
    \/ ChanDispatchSend
    \/ ChanDispatchClose
    \/ ChanDispatchCloseResp
    \/ \E w \in Workers : ChanWorkerRecv(w)
    \/ \E w \in Workers : ChanWorkerExit(w)
    \/ \E w \in Workers : ChanWorkerResponse(w)
    \/ \E w \in Workers : ChanWorkerSend(w)
    \/ \E w \in Workers : ChanWorkerStreamEnd(w)
    \/ \E w \in Workers : ChanWorkerFail(w)
    \/ ChanMainRecvErr
    \/ ChanMainRecvResp
    \/ ChanMainTick
    \/ ChanMainFinished
    \/ ChanProgressRecv

(***************************************************************************)
(* The specifications.                                                     *)
(***************************************************************************)
\* The range pipeline of one job.
Init ==
    InitRange /\ IdleSup /\ IdleTS /\ IdleClassify /\ IdleCmd /\ IdleSum /\ IdleFC
        /\ IdleChan

Spec == Init /\ [][NextRange]_vars

\* BackupRanges.
InitBackupRanges ==
    IdleRange /\ InitSup /\ IdleTS /\ IdleClassify /\ IdleCmd /\ IdleSum /\ IdleFC
        /\ IdleChan

SpecSup == InitBackupRanges /\ [][NextSup]_vars

\* BackupRanges with its scheduling: the supervisor goroutine runs, and its
\* select takes a ready errCh at the latest between two ticks of the
\* thirty-second ticker.
FairSpecSup ==
    /\ InitBackupRanges
    /\ [][NextSup]_vars
    /\ WF_vars(SupCheck)
    /\ SF_vars(SupRecvErr)

\* GetTS.
InitGetTS ==
    IdleRange /\ IdleSup /\ InitTS /\ IdleClassify /\ IdleCmd /\ IdleSum /\ IdleFC
        /\ IdleChan

SpecTS == InitGetTS /\ [][NextTS]_vars

\* onBackupResponse.
InitOnBackupResponse ==
    IdleRange /\ IdleSup /\ IdleTS /\ InitClassify /\ IdleCmd /\ IdleSum /\ IdleFC
        /\ IdleChan

SpecClassify == InitOnBackupResponse /\ [][NextClassify]_vars

\* A backup command.
InitCommand ==
    IdleRange /\ IdleSup /\ IdleTS /\ IdleClassify /\ InitCmd /\ IdleSum /\ IdleFC
        /\ IdleChan

SpecCmd == InitCommand /\ [][NextCmd]_vars

\* The schema-checksum pipeline.
InitChecksums ==
    IdleRange /\ IdleSup /\ IdleTS /\ IdleClassify /\ IdleCmd /\ InitSum
        /\ IdleFC /\ IdleChan

\* FastChecksum.
InitFastChecksum ==
    IdleRange /\ IdleSup /\ IdleTS /\ IdleClassify /\ IdleCmd /\ IdleSum
        /\ InitFC /\ IdleChan

\* The channels of one fine-grained iteration.
InitChannels ==
    IdleRange /\ IdleSup /\ IdleTS /\ IdleClassify /\ IdleCmd /\ IdleSum
        /\ IdleFC /\ InitChan

SpecChan == InitChannels /\ [][NextChan]_vars

SpecFC == InitFastChecksum /\ [][NextFC]_vars

SpecSum == InitChecksums /\ [][NextSum]_vars

(***************************************************************************)
(* Properties of the range pipeline.                                       *)
(***************************************************************************)
\* The last backupRange call returned nil; `tree` is still its tree.
RangeSucceeded == rpc = "done" \/ (rpc = "call" /\ rIdx > 1)

LastRange == IF rpc = "done" THEN ranges[rIdx] ELSE ranges[rIdx - 1]

\* C1 (coverage): when backupRange has returned success for [s, e), the
\* union of the sub-ranges in the tree of that call is exactly [s, e).
C1_Coverage ==
    RangeSucceeded => Covered(tree) = KeysOf(LastRange)

\* The job succeeded, and its last range needed a fine-grained iteration that
\* backed off before its gap was closed.
C1_Witness ==
    /\ rpc = "done"
    /\ boTotal > 0
    /\ Covered(tree) = KeysOf(LastRange)

\* C2 (fine-grained termination), as claimed: an outer iteration that covered
\* no new part of [s, e) consumes backoff budget when it ends.  Iterations
\* that ended with a worker's error unread are left out.
C2_NoProgressConsumesBudget ==
    [][(rpc = "backoff" /\ errCh = <<>> /\ Covered(tree) = covBefore)
          => boTotal' > boTotal]_vars

\* C7 (file uniqueness), as claimed: after a successful job no two entries
\* of BackupMeta.Files share a Name.
C7_FileNamesUnique ==
    rpc = "done" =>
        \A i, j \in 1..Len(Files) : i # j => Files[i].Name # Files[j].Name

\* C8 (non-overlap): the sub-ranges stored in the tree are pairwise disjoint,
\* in every state of a backupRange call.
C8_NonOverlap ==
    \A n1, n2 \in tree : n1 # n2 => KeysOf(n1) \cap KeysOf(n2) = {}

\* The select loop has put a fine-grained response next to a sub-range of the
\* push-down while a second worker is still streaming.
C8_Witness ==
    /\ rpc = "select"
    /\ Cardinality(tree) >= 2
    /\ Covered(tree) # covBefore /\ covBefore # {}
    /\ \E w \in Workers : wpc[w] = "stream"

(***************************************************************************)
(* Properties of BackupRanges.                                             *)
(***************************************************************************)
\* C3 (safepoint abort), as claimed: once a check has found
\* backupTS <= gcSafePoint, BackupRanges has returned an error, whether or
\* not ranges remain.
C3_SafepointAbort ==
    lastErr = "exceeded" => supRet \notin {"none", "nil"}

\* C4 (final safepoint verdict): BackupRanges returns nil only after the
\* goroutine went through all the ranges and closed errCh, and only when the
\* check made after that read a safepoint below backupTS; and whatever the
\* check made after the last range returned is what BackupRanges returns.
C4_FinalVerdict ==
    /\ supRet = "nil" =>
          /\ finished /\ gpc = "closed" /\ gIdx > nRanges
          /\ lastErr = "nil"
          /\ seenSafePoint >= 0 /\ backupTS > seenSafePoint
    /\ (supPc = "returned" /\ finished) => supRet = lastErr

\* BackupRanges returned nil for a job with ranges, and its last check read
\* a safepoint that had moved while the job ran.
C4_Witness ==
    /\ supPc = "returned" /\ supRet = "nil"
    /\ nRanges > 0
    /\ seenSafePoint > 0

\* C5 (lookup failures tolerated), as claimed: BackupRanges never returns
\* the error of a check whose safepoint lookup failed, at any check.
C5_LookupFailureTolerated ==
    supRet # "lookup"

(***************************************************************************)
(* Properties of GetTS.                                                    *)
(***************************************************************************)
\* C6 (snapshot above the safepoint), as claimed: when GetTS returns a
\* timestamp for a --timeago, its physical part is strictly greater than
\* safePoint.Physical as the call read it.
C6_SnapshotAboveSafePoint ==
    (tsPc = "returned" /\ ~tsRet.err /\ ~timeAgo.empty) =>
        PhysicalOf(tsRet.ts) > safePointPhysical

(***************************************************************************)
(* Properties of onBackupResponse.                                         *)
(***************************************************************************)
Committed(v) == v.response # <<>> /\ ~v.err

Retried(v, ms) == v = Verdict(<<>>, ms, FALSE)

Fatal(v) == v.response = <<>> /\ v.err

\* C9 (the classifier is total and fails closed): the response comes back,
\* with hint 0, exactly when its Error is nil; a locked key is a retry with
\* the hint msBeforeExpired, and fatal only when the lock cannot be
\* resolved; a RegionError with one of the six fields is a retry with hint
\* 1000; every other error is fatal; a response with an Error never comes
\* back.
C9_Classification ==
    clsPc = "returned" =>
        LET e == clsResp.Error
            v == clsOut
        IN /\ Committed(v) <=> e.IsNil
           /\ e.IsNil => v = Verdict(<<clsResp>>, 0, FALSE)
           /\ v.response # <<>> => v.response[1].Error.IsNil
           /\ Committed(v) \/ Fatal(v) \/ (v.response = <<>> /\ ~v.err)
           /\ (~e.IsNil /\ e.Detail = "KvError" /\ e.Locked) =>
                 IF clsResolve.err THEN Fatal(v)
                 ELSE Retried(v, clsResolve.ms)
           /\ (~e.IsNil /\ e.Detail = "RegionError"
                 /\ e.Region \cap RetryableRegionErrs # {}) =>
                 Retried(v, 1000)
           /\ (~e.IsNil /\ e.Detail = "KvError" /\ ~e.Locked) => Fatal(v)
           /\ (~e.IsNil /\ e.Detail = "RegionError"
                 /\ e.Region \cap RetryableRegionErrs = {}) => Fatal(v)
           /\ (~e.IsNil /\ e.Detail \in {"ClusterIdError", "none"}) => Fatal(v)

\* The classifier has answered a response whose Error has no Detail.
C9_Witness ==
    /\ clsPc = "returned"
    /\ clsResp.Error = ErrUnknown
    /\ Fatal(clsOut)

(***************************************************************************)
(* Properties of the backup commands.                                      *)
(***************************************************************************)
\* C10 (manifest pre-existing), as claimed: a command started on a storage
\* that holds backupmeta returns an error, having selected no timestamp,
\* planned nothing, sent no request and written nothing.
C10_ManifestPreExisting ==
    (metaPre /\ cmdPc = "returned") =>
        /\ cmdRet # "nil"
        /\ cmdWork = {}
        /\ metaWrites = 0

\* The call `step` of RunE has returned nil.
StepOk(step) == \E i \in 1..Len(cmdLog) : cmdLog[i].step = step /\ cmdLog[i].ok

\* The call `step` of RunE has returned an error.
StepFailed(step) ==
    \E i \in 1..Len(cmdLog) : cmdLog[i].step = step /\ ~cmdLog[i].ok

\* C11 (manifest written once, at the end): backupmeta is written at most
\* once; it is written only after BackupRanges and CompleteMeta have both
\* returned nil, and not at all in a run in which either returned an error.
C11_ManifestWrittenOnce ==
    /\ metaWrites <= 1
    /\ metaWrites > 0 => StepOk("BackupRanges") /\ StepOk("CompleteMeta")
    /\ (StepFailed("BackupRanges") \/ StepFailed("CompleteMeta"))
          => metaWrites = 0

\* A command has written its manifest and returned.
C11_Witness ==
    /\ cmdPc = "returned"
    /\ metaWrites = 1
    /\ StepOk("BackupRanges") /\ StepOk("CompleteMeta")

\* C12 (every fatal error fails the command), as claimed: when a call of
\* RunE has returned an error, RunE returns an error.
C12_FatalErrorFailsCommand ==
    (cmdPc = "returned" /\ \E i \in 1..Len(cmdLog) : ~cmdLog[i].ok)
        => cmdRet # "nil"

\* FastChecksum has returned false and no error.
ChecksumMismatch ==
    \E i \in 1..Len(cmdLog) :
        cmdLog[i].step = "FastChecksum" /\ cmdLog[i].ok /\ ~cmdLog[i].valid

SaveCalled == StepOk("SaveBackupMeta") \/ StepFailed("SaveBackupMeta")

\* C15 (a failed verification does not stop the manifest write): when
\* FastChecksum has returned false without an error, RunE goes on to
\* SaveBackupMeta and returns what it returns, the manifest being written
\* unless it cannot be marshalled; when FastChecksum has returned an error
\* nothing is written.
C15_VerifyFailureNotFatal ==
    /\ (cmdPc = "returned" /\ ChecksumMismatch) =>
          /\ SaveCalled
          /\ cmdRet \in {"nil", "Marshal", "Write"}
          /\ cmdRet = "nil" <=> StepOk("SaveBackupMeta")
          /\ cmdRet # "Marshal" => metaWrites = 1
    /\ StepFailed("FastChecksum") => metaWrites = 0 /\ ~SaveCalled

\* A command whose checksum did not match has written its manifest and
\* returned nil.
C15_Witness ==
    /\ cmdPc = "returned" /\ ChecksumMismatch
    /\ metaWrites = 1 /\ cmdRet = "nil"

EarlyFailures ==
    {"GetTS", "empty backup store", "at least one thread required",
     "empty database name", "empty table name"}

C13_JoinSurfacesErrors ==
    FailedTasks # {} =>
        /\ joinRet # "schemas"
        /\ metaSchemas = Unset
        /\ jpc = "returned" => joinRet = "err"

\* The join has returned an error after it took the checksum of another
\* table, with a third task still at its send.
C13_Witness ==
    /\ jpc = "returned" /\ joinRet = "err"
    /\ Len(joinSchemas) > 0
    /\ \E t \in Tables : tpc[t] = "sendSum"

(***************************************************************************)
(* Properties of FastChecksum.                                             *)
(***************************************************************************)
\* C14 (checksum soundness): FastChecksum returns true exactly when every
\* schema agrees with the xor of Crc64Xor and the sums of TotalKvs and of
\* TotalBytes of the files of its table, in words that wrap around; it
\* returns false as soon as a table disagrees in one of the three.
C14_ChecksumSoundness ==
    /\ fcRet = "true" => ~fcMismatch /\ fcIdx > fcN
    /\ fcRet = "false" => fcMismatch
    /\ (fcPc = "loop" /\ fcFiles = <<>>) => ~fcMismatch

\* FastChecksum has returned false at the second table, after the first
\* one agreed with its schema.
C14_Witness ==
    /\ fcRet = "false"
    /\ fcIdx = 2

(***************************************************************************)
(* Properties of the manifest of a job over several ranges.                *)
(***************************************************************************)
\* C16 (manifest file order): after a successful job, whatever the order of
\* its input ranges, the files of BackupMeta.Files are in ascending order of
\* the StartKey of the sub-range that produced them, over the whole
\* manifest.
C16_FilesAscending ==
    rpc = "done" =>
        \A i, j \in 1..Len(Files) :
            i < j => Files[i].StartKey <= Files[j].StartKey

\* A request is a snapshot at the job's backupTS.
AtBackupTS(req) == req.StartVersion = backupTS /\ req.EndVersion = backupTS

CallFiles ==
    SubSeq(Files, Len(Files) - Len(FlattenFiles(Ascend(tree))) + 1, Len(Files))

RECURSIVE Replay(_, _)
\* The files re-inserted in order, each as the sub-range of its own keys.
Replay(t, files) ==
    IF files = <<>> THEN t
    ELSE Replay(putOk(t, Head(files).StartKey, Head(files).EndKey,
                      <<Head(files)>>),
                Tail(files))

\* The sub-ranges a tree stores.
SubRanges(t) == {Range(n.StartKey, n.EndKey) : n \in t}

\* C19 (manifest replay round trip): for a successful backupRange, the files
\* it appended to BackupMeta.Files, re-inserted in order, give the same set
\* of stored sub-ranges as the RangeTree of the call, sub-ranges whose
\* response carried no files included.
C19_ReplayRoundTrip ==
    RangeSucceeded => SubRanges(Replay({}, CallFiles)) = SubRanges(tree)

\* C20 (fatal errors of the fine-grained path are never lost): when a worker
\* got an error from handleFineGrained, fineGrainedBackup returns an error in
\* that iteration; it never takes the iteration as finished, and goes on to
\* its backoff step and the next iteration, while an error of a worker is
\* unread in errCh.
C20_ErrorsNeverLost ==
    rpc = "backoff" => errCh = <<>>

(***************************************************************************)
(* Properties of the planner and the checksum worker pool.                 *)
(***************************************************************************)
\* startTableChecksum waits in workerPool.Apply for a worker, every worker
\* holds a task that waits at its send, and no one receives: the join starts
\* only after the planner has returned.
PlannerBlocked ==
    /\ jpc = "plan"
    /\ applied < nTables
    /\ Cardinality(Busy) = poolSize
    /\ \A t \in Busy : tpc[t] \in {"sendSum", "sendErr"}

\* C21 (the checksum pool never blocks planning): for any number of tables,
\* more tables than workers of the pool included, the planner is never
\* blocked for good in startTableChecksum; it returns, and every registered
\* task runs and delivers its result to finishTableChecksum.
C21_PoolNeverBlocksPlanning ==
    ~PlannerBlocked

(***************************************************************************)
(* Properties of the goroutines and channels of a fine-grained iteration.  *)
(***************************************************************************)
\* C22 (child tasks drain after a fatal error): once fineGrainedBackup has
\* returned an error, no worker is left for good at its send on respCh and
\* the dispatcher is not left for good at its send on retry; each of them
\* can still run to its end.
C22_ChildrenDrain ==
    chMain = "returned" =>
        /\ \A w \in Workers : ~BlockedWorker(w)
        /\ ~BlockedDispatcher

\* C25 (progress ticks never block the backup): when the progress channel
\* is full, or has no consumer, the select loop is not held at its tick; the
\* tick is dropped and the loop goes on with respCh and errCh.
C25_TicksNeverBlock ==
    ~(chMain = "tick" /\ chStalled /\ chUpd = chUpdCap)

(***************************************************************************)
(* Properties of the range loop of BackupRanges.                           *)
(***************************************************************************)
\* A backupRange call is running.
CallRunning == gpc = "run" /\ gIdx <= nRanges

\* C23 (ranges are strictly sequential): the calls are made one at a time in
\* input order, the next one only after the one before returned nil; after
\* the first failing call no later range is attempted and BackupRanges
\* returns that call's error; BackupRanges never returns while a call is
\* running; and the goroutine does not stay for good at the send of its
\* error.
C23_RangesSequential ==
    /\ [][/\ gIdx' \in {gIdx, gIdx + 1}
          /\ gIdx' = gIdx + 1 => (gpc = "run" /\ gpc' = "run")
          /\ gpc \in {"send", "exit"} => gIdx' = gIdx]_vars
    /\ [](supPc = "returned" => ~CallRunning /\ gpc # "send")
    /\ []((supPc = "returned" /\ gIdx <= nRanges) => supRet = "range")
    /\ (gpc = "send") ~> (gpc = "exit" /\ supRet = "range")

\* BackupRanges has returned the error of the second call, made after the
\* first returned nil.
C23_Witness ==
    /\ supPc = "returned" /\ supRet = "range"
    /\ gIdx = 2 /\ gpc = "exit"

(***************************************************************************)
(* Properties of the backoff between fine-grained iterations.              *)
(***************************************************************************)
\* C24 (the backoff between iterations is the maximum hint): at the end of
\* an iteration in which no worker failed, the shared maximum is the largest
\* backoffMs the classifier returned for any response of the iteration; the
\* loop backs off exactly when that is above 0, the sleep it asks for is
\* that maximum, and when the backoffer reports its budget exhausted
\* fineGrainedBackup returns an error.
C24_BackoffIsMaxHint ==
    [][(rpc = "backoff" /\ errCh = <<>>) =>
          /\ maxMs = hintMax
          /\ boTotal' = boTotal + hintMax
          /\ (hintMax > 0 /\ boTotal' >= backupFineGrainedMaxBackoff)
                => (rpc' = "failed" /\ rErr' = "backoff")
          /\ (hintMax = 0 \/ boTotal' < backupFineGrainedMaxBackoff)
                => rpc' = "fine"]_vars

\* An iteration without a failed worker has ended in which the hint of a
\* lock was returned, after an earlier iteration had backed off for a region
\* error.
C24_Witness ==
    /\ rpc = "backoff" /\ errCh = <<>>
    /\ hintMax = 80000
    /\ boTotal = RegionBackoffMs

(***************************************************************************)
(* Properties of the manifest across backupRange calls.                    *)
(***************************************************************************)
\* The step on which a backupRange call drains its tree and returns nil.
RangeReturnsNil == rpc = "fine" /\ rpc' \in {"call", "done", "fatal"}

\* A file of the manifest lies in one of the ranges before the current one.
FromEarlierRange(f) ==
    \E i \in 1..(rIdx - 1) :
        ranges[i].StartKey <= f.StartKey /\ f.EndKey <= ranges[i].EndKey

\* C27 (a failed range leaves the manifest untouched): Files, StartVersion
\* and EndVersion of the manifest change only on the step on which a
\* backupRange call returns nil, and Files only grows; so when a call returns
\* an error, from the store listing, the push-down, the fine-grained path or
\* the backoff budget, the manifest is what it was before the call: it holds
\* the files of the earlier ranges, and none of the failed one.
C27_FailedRangeLeavesManifest ==
    /\ [][/\ (Files' # Files \/ metaVersions' # metaVersions)
                => RangeReturnsNil
          /\ Len(Files) <= Len(Files')
          /\ SubSeq(Files', 1, Len(Files)) = Files]_vars
    /\ [](rpc = "failed" =>
            /\ \A i \in 1..Len(Files) : FromEarlierRange(Files[i])
            /\ metaVersions = IF rIdx = 1 THEN NoVersions
                              ELSE [StartVersion |-> backupTS,
                                    EndVersion |-> backupTS])

\* The second backupRange call has returned an error of the fine-grained
\* path with files in its tree, and the manifest holds the file of the first.
C27_Witness ==
    /\ rpc = "failed" /\ rErr = "fineGrained"
    /\ rIdx = 2
    /\ Files # <<>>
    /\ \E n \in tree : n.Files # <<>>

(***************************************************************************)
(* Properties of the fine-grained response channel.                        *)
(***************************************************************************)
\* C28 (responses on the fine-grained response channel have no Error):
\* handleFineGrained forwards a response only when the classifier returned
\* it, which it does only for a nil Error; so the select loop never takes
\* its `unexpected backup error` branch, and every sub-range the fine-grained
\* path inserts comes from a response without error.
C28_RespChErrorFree ==
    /\ [](\A i \in 1..Len(respCh) : respCh[i].Error.IsNil)
    /\ [][rpc = "select" => rpc' # "fatal"]_vars

\* A response is in respCh while the stream of its worker also had a
\* response that the classifier answered with a retry.
C28_Witness ==
    /\ respCh # <<>>
    /\ \E w \in Workers : wpc[w] = "stream" /\ wmax[w] > 0

(***************************************************************************)
(* Properties of the join of the checksum pipeline.                        *)
(***************************************************************************)
\* C26 (checksum join completeness): when every checksum task succeeded,
\* finishTableChecksum returns exactly one Schema for each registered
\* (database, table) pair, each with the checksum of its own table, whatever
\* the order in which the tasks ended and whatever the two names of the
\* pairs are.
C26_JoinComplete ==
    joinRet = "schemas" =>
        /\ Len(metaSchemas) = nTables
        /\ \A t \in 1..nTables :
              \E i \in 1..Len(metaSchemas) :
                  /\ metaSchemas[i] = [schema |-> t, checksum |-> t]
                  /\ \A j \in 1..Len(metaSchemas) :
                        metaSchemas[j].schema = t => j = i
=============================================================================
